---- MODULE Spec2Model ----
(***************************************************************************)
(* State-machine model of the QuickCart client: the camera screen's frame  *)
(* capture loop, the QR pairing screen, the cart context with the products *)
(* screen's push subscription, and the checkout screen's payment flow.     *)
(*                                                                         *)
(* React function components are modelled by their state, their refs and  *)
(* the closures that timers and pending promises hold: a closure keeps the *)
(* state values of the render that created it.                             *)
(***************************************************************************)
EXTENDS Integers, Sequences, FiniteSets, TLC

(***************************************************************************)
(* Bounds of the model.                                                    *)
(***************************************************************************)
NumSessions == 2
MaxChains == 2
MaxStartTimers == 1
MaxInFlight == 2
MaxPairTimers == 2
NumItems == 2
NumNames == 1
MaxItems == 2
MaxQty == 3
MaxPrice == 1
PriceUnit == 250
MaxTotal == 2
NumKeys == 2

NoSession == 0
Sessions == 1..NumSessions
SessionOrNone == {NoSession} \cup Sessions
ChainIds == 1..MaxChains
NoTimer == 0

VARIABLES
    \* ---- camera screen (camera.tsx) ----
    camMounted,         \* CameraScreen is mounted
    camSession,         \* sessionId of the latest render (param || context)
    permissionGranted,  \* permission?.granted
    cameraReady,        \* cameraReady state
    isStreaming,        \* isStreaming state
    isMountedRef,       \* isMountedRef.current
    isCapturingRef,     \* isCapturingRef.current
    frameIntervalRef,   \* chain whose tick timer frameIntervalRef.current names
    startTimers,        \* pending setTimeout(..., 500) of the effect: closures
    chainPc,            \* per tick chain: "none" | "timer" | "capture" | "upload"
    chainClo,           \* per tick chain: the closure captureAndSendFrame runs in
    stopped,            \* stopStreaming was called and no start was requested since
    camEvent,           \* what the last camera step did
    error               \* error state shown on the screen: "none" | "capture"
                        \*                | "send" | "network"

camVars == <<camMounted, camSession, permissionGranted, cameraReady, isStreaming,
             isMountedRef, isCapturingRef, frameIntervalRef, startTimers,
             chainPc, chainClo, stopped, camEvent, error>>

VARIABLES
    \* ---- cart context (CartContext.tsx) ----
    sessionId,          \* sessionId state of the CartProvider
    \* ---- pairing screen (QRCodeScreen) ----
    isScanning,         \* isScanning state
    isProcessingScan,   \* isProcessingScan state
    lastScannedId,      \* lastScannedId state
    rScanning,          \* isScanning of the committed render
    rProcessing,        \* isProcessingScan of the committed render
    rLastScanned,       \* lastScannedId of the committed render
    alertShownRef,      \* alertShownRef.current
    pairInFlight,       \* per code: POST /api/pair calls awaiting their response
    postedCodes,        \* the codes a POST /api/pair was issued for so far
    pairAlerts,         \* alerts on screen whose button was not pressed yet
    procTimers,         \* pending setTimeout(..., 1000) of a success alert, oldest first
    coolTimers,         \* pending setTimeout(..., 5000), oldest first
    cartPc,             \* handleImACart: "idle" | "create" | "qr"
    cartNew,            \* newSessionId of the running handleImACart
    showQRCode,         \* showQRCode state
    qrCodeData,         \* qrCodeData state
    pairEvent,          \* what the last pairing step did
    lastCode            \* the code of the last scan delivery

pairVars == <<isScanning, isProcessingScan, lastScannedId, rScanning, rProcessing,
              rLastScanned, alertShownRef, pairInFlight, postedCodes, pairAlerts,
              procTimers, coolTimers, cartPc, cartNew, showQRCode, qrCodeData,
              pairEvent, lastCode>>

ctxVars == <<sessionId>>

VARIABLES
    \* ---- cart context and products screen ----
    products,           \* products state of the CartProvider
    fetching,           \* sessions whose GET /api/carts/{id}/items is awaiting its answer
    effSession,         \* sessionId of the render whose effects ran last
    previousQuantities, \* previousQuantitiesRef.current (0: no entry)
    removeAlert,        \* id the open 'Remove Product' alert is about
    lastDelivered,      \* the document snapshot delivered last to the listener
    beeps,              \* the playBeep calls of the last step, in order
    cartEvent,          \* what the last cart step did
    cartSub,            \* per session, the onSnapshot listeners of the screens:
                        \* "none" | "active" | "released"
    fetched,            \* the items array of the last OK answer of
                        \* GET /api/carts/{id}/items
    isLoading           \* isLoading state of the CartProvider

cartVars == <<products, fetching, effSession, previousQuantities, removeAlert,
              lastDelivered, beeps, cartEvent, cartSub, fetched, isLoading>>

VARIABLES
    \* ---- checkout screen ----
    checkoutScreen,       \* the checkout screen that is mounted: "none" | "inline"
                          \*                | "service"
    firebaseTotalPrice,   \* firebaseTotalPrice state (checkout.tsx)
    isProcessingPayment,  \* isProcessingPayment state (checkout.tsx)
    isProcessing,         \* isProcessing state (the screen on services/stripe.ts)
    payPc,                \* handlePayment: "idle" | "intent" | "init" | "present"
                          \*                | "finalize" | "alert"
    payAmount,            \* amount of the last create-payment-intent request
    payEvent,             \* what the last checkout step did
    checkoutPc,           \* handleCheckout of the products screen: "idle" | "put"
    payAlert,             \* title of the alert the attempt raised: "none" | ...
    sheetResult,          \* what presentPaymentSheet of the attempt resolved
                          \* with: "none" | "paid" | "canceled" | "failed"
    payRendered,          \* the render with the processing flag that the last
                          \* press set is committed
    latePc                \* handlePayment called from the render before:
                          \* "none" | "intent" | "init" | "present"
                          \*        | "finalize" | "alert"

payVars == <<checkoutScreen, firebaseTotalPrice, isProcessingPayment, isProcessing,
             payPc, payAmount, payEvent, checkoutPc, payAlert, sheetResult,
             payRendered, latePc>>

shopVars == <<cartVars, payVars>>

vars == <<camVars, pairVars, ctxVars, shopVars>>

notCam == <<pairVars, ctxVars, shopVars>>

(***************************************************************************)
(* Camera screen                                                           *)
(***************************************************************************)
Closure(str, sid, perm, ready) ==
    [str |-> str, sid |-> sid, perm |-> perm, ready |-> ready]

NoClosure == Closure(FALSE, NoSession, FALSE, FALSE)

Closures == [str : BOOLEAN, sid : SessionOrNone, perm : BOOLEAN, ready : BOOLEAN]

\* cameraRef.current is set while the CameraView is rendered
CameraRefValid ==
    camMounted /\ permissionGranted /\ camSession # NoSession

\* clearTimeout(frameIntervalRef.current): cancels the timer only if still pending
ClearedChains ==
    IF frameIntervalRef # NoTimer /\ chainPc[frameIntervalRef] = "timer"
    THEN {frameIntervalRef} ELSE {}

FreeChains == {c \in ChainIds : chainPc[c] = "none" /\ c # frameIntervalRef}

CamInit ==
    /\ camMounted = TRUE
    /\ camSession = NoSession
    /\ permissionGranted = FALSE
    /\ cameraReady = FALSE
    /\ isStreaming = FALSE
    /\ isMountedRef = TRUE
    /\ isCapturingRef = FALSE
    /\ frameIntervalRef = NoTimer
    /\ startTimers = <<>>
    /\ chainPc = [c \in ChainIds |-> "none"]
    /\ chainClo = [c \in ChainIds |-> NoClosure]
    /\ stopped = FALSE
    /\ camEvent = "none"
    /\ error = "none"

\* One synchronous run of captureAndSendFrame in closure clo, up to its first
\* await or return, for chain c.  early: the elapsed-time test asks to wait.
\* Returns the outcome: "end" | "schedule" | "capture".
TickOutcome(clo, early) ==
    IF ~isMountedRef THEN "end"
    ELSE IF ~clo.str \/ clo.sid = NoSession \/ ~CameraRefValid
            \/ isCapturingRef \/ ~clo.ready THEN "schedule"
    ELSE IF early THEN "schedule"
    ELSE "capture"

\* The effect of one synchronous run of the tick of chain c on the loop state.
RunTick(c, clo, early) ==
    LET out == TickOutcome(clo, early) IN
    /\ chainPc' = [chainPc EXCEPT ![c] =
                      CASE out = "end" -> "none"
                        [] out = "schedule" -> "timer"
                        [] OTHER -> "capture"]
    /\ chainClo' = [chainClo EXCEPT ![c] = IF out = "end" THEN NoClosure ELSE clo]
    /\ frameIntervalRef' = IF out = "schedule" THEN c ELSE frameIntervalRef
    /\ isCapturingRef' = IF out = "capture" THEN TRUE ELSE isCapturingRef
    /\ camEvent' = out

\* setTimeout(() => { if (isMountedRef.current) startStreaming() }, 500) fires.
\* startStreaming sets lastFrameTimeRef to now and calls captureAndSendFrame at
\* once, so the elapsed-time test of that first run always asks to wait.
StartTimerFire ==
    /\ UNCHANGED notCam
    /\ startTimers # <<>>
    /\ LET clo == Head(startTimers) IN
       /\ startTimers' = Tail(startTimers)
       /\ IF isMountedRef /\ clo.sid # NoSession /\ clo.perm
          THEN /\ FreeChains # {}
               /\ isStreaming' = TRUE
               /\ error' = "none"
               /\ RunTick(CHOOSE c \in FreeChains : \A d \in FreeChains : c <= d,
                          clo, TRUE)
          ELSE /\ UNCHANGED <<isStreaming, chainPc, chainClo, frameIntervalRef,
                              isCapturingRef, error>>
               /\ camEvent' = "none"
    /\ UNCHANGED <<camMounted, camSession, permissionGranted, cameraReady,
                   isMountedRef, stopped>>

\* a tick timer set by captureAndSendFrame fires
TickFire(c, early) ==
    /\ UNCHANGED notCam
    /\ chainPc[c] = "timer"
    /\ RunTick(c, chainClo[c], early)
    /\ UNCHANGED <<camMounted, camSession, permissionGranted, cameraReady,
                   isStreaming, isMountedRef, startTimers, stopped, error>>

\* the tick timer is set again by a chain that resumes after an await
Reschedule(c) ==
    /\ chainPc' = [chainPc EXCEPT ![c] = IF isMountedRef THEN "timer" ELSE "none"]
    /\ chainClo' = [chainClo EXCEPT ![c] = IF isMountedRef THEN @ ELSE NoClosure]
    /\ frameIntervalRef' = IF isMountedRef THEN c ELSE frameIntervalRef
    /\ camEvent' = IF isMountedRef THEN "schedule" ELSE "end"

EndChain(c) ==
    /\ chainPc' = [chainPc EXCEPT ![c] = "none"]
    /\ chainClo' = [chainClo EXCEPT ![c] = NoClosure]
    /\ UNCHANGED frameIntervalRef
    /\ camEvent' = "end"

\* takePictureAsync resolves; hasData: photo && photo.base64
CaptureDone(c, hasData) ==
    /\ UNCHANGED notCam
    /\ chainPc[c] = "capture"
    /\ isCapturingRef' = FALSE
    /\ IF ~isMountedRef THEN EndChain(c)
       ELSE IF hasData /\ chainClo[c].sid # NoSession
       THEN /\ chainPc' = [chainPc EXCEPT ![c] = "upload"]
            /\ camEvent' = "upload"
            /\ UNCHANGED <<chainClo, frameIntervalRef>>
       ELSE Reschedule(c)
    /\ UNCHANGED <<camMounted, camSession, permissionGranted, cameraReady,
                   isStreaming, isMountedRef, startTimers, stopped, error>>

\* the catch block of captureAndSendFrame after its first statement, for a
\* failure of the capture of chain c; teardown: the message mentions an unmount
CaptureCaught(c, teardown) ==
    IF teardown
    THEN /\ chainPc' = [chainPc EXCEPT ![c] = "none"]
         /\ chainClo' = [chainClo EXCEPT ![c] = NoClosure]
         /\ UNCHANGED <<frameIntervalRef, error>>
    ELSE /\ chainPc' = [chainPc EXCEPT ![c] = IF isMountedRef THEN "timer"
                                              ELSE "none"]
         /\ chainClo' = [chainClo EXCEPT ![c] = IF isMountedRef THEN @
                                                ELSE NoClosure]
         /\ frameIntervalRef' = IF isMountedRef THEN c ELSE frameIntervalRef
         /\ error' = IF isMountedRef THEN "capture" ELSE error

\* takePictureAsync rejects and the catch block leaves isCapturingRef alone
CaptureFailFlagKept(c, teardown) ==
    /\ UNCHANGED notCam
    /\ chainPc[c] = "capture"
    /\ UNCHANGED isCapturingRef
    /\ CaptureCaught(c, teardown)
    /\ camEvent' = IF teardown THEN "teardown" ELSE "capture-error"
    /\ UNCHANGED <<camMounted, camSession, permissionGranted, cameraReady,
                   isStreaming, isMountedRef, startTimers, stopped>>

\* takePictureAsync rejects and the catch block treats every failure alike
CaptureFailUnclassified(c, teardown) ==
    /\ UNCHANGED notCam
    /\ chainPc[c] = "capture"
    /\ isCapturingRef' = FALSE
    /\ CaptureCaught(c, FALSE)
    /\ camEvent' = IF teardown THEN "teardown" ELSE "capture-error"
    /\ UNCHANGED <<camMounted, camSession, permissionGranted, cameraReady,
                   isStreaming, isMountedRef, startTimers, stopped>>

\* takePictureAsync rejects; teardown: the message mentions an unmount
CaptureFail(c, teardown) ==
    /\ UNCHANGED notCam
    /\ chainPc[c] = "capture"
    /\ isCapturingRef' = FALSE
    /\ CaptureCaught(c, teardown)
    /\ camEvent' = IF teardown THEN "teardown" ELSE "capture-error"
    /\ UNCHANGED <<camMounted, camSession, permissionGranted, cameraReady,
                   isStreaming, isMountedRef, startTimers, stopped>>

\* sendFrameToBackend lets the failure of the upload out and nothing catches it
UploadThrows(c, outcome) ==
    /\ UNCHANGED notCam
    /\ chainPc[c] = "upload"
    /\ IF outcome = "ok" THEN Reschedule(c) ELSE EndChain(c)
    /\ error' = IF outcome = "ok" THEN "none" ELSE error
    /\ UNCHANGED <<camMounted, camSession, permissionGranted, cameraReady,
                   isStreaming, isMountedRef, isCapturingRef, startTimers, stopped>>

\* the ways the POST of a frame ends: OK, non-OK status, fetch rejects
UploadOutcomes == {"ok", "http", "network"}

\* sendFrameToBackend returns: it catches every failure of the upload and
\* sets the error state by the outcome
UploadDone(c, outcome) ==
    /\ UNCHANGED notCam
    /\ chainPc[c] = "upload"
    /\ Reschedule(c)
    /\ error' = CASE outcome = "ok" -> "none"
                  [] outcome = "http" -> "send"
                  [] OTHER -> "network"
    /\ UNCHANGED <<camMounted, camSession, permissionGranted, cameraReady,
                   isStreaming, isMountedRef, isCapturingRef, startTimers, stopped>>

\* stopStreaming, as far as the loop state goes
StopStreaming ==
    /\ isStreaming' = FALSE
    /\ isCapturingRef' = FALSE
    /\ chainPc' = [c \in ChainIds |-> IF c \in ClearedChains THEN "none" ELSE chainPc[c]]
    /\ chainClo' = [c \in ChainIds |-> IF c \in ClearedChains THEN NoClosure ELSE chainClo[c]]
    /\ frameIntervalRef' = NoTimer
    /\ UNCHANGED error

\* the effect of [sessionId, permission?.granted, cameraReady] runs again for the
\* render (sid, perm, ready): cleanup of the previous run, then the new body
RunEffect(sid, perm, ready) ==
    /\ StopStreaming
    /\ isMountedRef' = TRUE
    /\ IF sid # NoSession /\ perm /\ ready
       THEN /\ Len(startTimers) < MaxStartTimers
            /\ startTimers' = Append(startTimers, Closure(isStreaming, sid, perm, ready))
            /\ stopped' = FALSE
            /\ camEvent' = "effect"
       ELSE /\ UNCHANGED startTimers
            /\ stopped' = TRUE
            /\ camEvent' = "stop"

\* onCameraReady of the CameraView
OnCameraReady ==
    /\ UNCHANGED notCam
    /\ CameraRefValid
    /\ ~cameraReady
    /\ cameraReady' = TRUE
    /\ RunEffect(camSession, permissionGranted, TRUE)
    /\ UNCHANGED <<camMounted, camSession, permissionGranted>>

\* the screen renders with another sessionId (route param or cart context)
CamSessionChange(s) ==
    /\ UNCHANGED notCam
    /\ camMounted
    /\ s # camSession
    /\ camSession' = s
    /\ RunEffect(s, permissionGranted, cameraReady)
    /\ UNCHANGED <<camMounted, permissionGranted, cameraReady>>

\* the camera permission is granted or withdrawn
PermissionChange(g) ==
    /\ UNCHANGED notCam
    /\ camMounted
    /\ g # permissionGranted
    /\ permissionGranted' = g
    /\ RunEffect(camSession, g, cameraReady)
    /\ UNCHANGED <<camMounted, camSession, cameraReady>>

\* handleBackPress: stopStreaming(); router.back() leaves the screen mounted
BackPress ==
    /\ UNCHANGED notCam
    /\ CameraRefValid
    /\ StopStreaming
    /\ stopped' = TRUE
    /\ camEvent' = "stop"
    /\ UNCHANGED <<camMounted, camSession, permissionGranted, cameraReady,
                   isMountedRef, startTimers>>

\* the screen unmounts: the effect's cleanup runs for the last time
CamUnmount ==
    /\ UNCHANGED notCam
    /\ camMounted
    /\ camMounted' = FALSE
    /\ StopStreaming
    /\ isMountedRef' = FALSE
    /\ stopped' = TRUE
    /\ camEvent' = "stop"
    /\ UNCHANGED <<camSession, permissionGranted, cameraReady, startTimers>>

CamNext ==
    \/ StartTimerFire
    \/ \E c \in ChainIds, early \in BOOLEAN : TickFire(c, early)
    \/ \E c \in ChainIds, hasData \in BOOLEAN : CaptureDone(c, hasData)
    \/ \E c \in ChainIds, teardown \in BOOLEAN : CaptureFail(c, teardown)
    \/ \E c \in ChainIds, outcome \in UploadOutcomes : UploadDone(c, outcome)
    \/ OnCameraReady
    \/ \E s \in SessionOrNone : CamSessionChange(s)
    \/ \E g \in BOOLEAN : PermissionChange(g)
    \/ BackPress
    \/ CamUnmount

(***************************************************************************)
(* Pairing screen                                                          *)
(***************************************************************************)
\* a scanned code is the session id printed in the QR code; NoCode is the
\* empty string (a payload that trims to nothing, the cleared ref and state)
NoCode == 0
Codes == Sessions
CodeOrNone == {NoCode} \cup Codes

Alert(kind, code) == [kind |-> kind, code |-> code]

PairInit ==
    /\ isScanning = FALSE
    /\ isProcessingScan = FALSE
    /\ lastScannedId = NoCode
    /\ rScanning = FALSE
    /\ rProcessing = FALSE
    /\ rLastScanned = NoCode
    /\ alertShownRef = NoCode
    /\ pairInFlight = [c \in Codes |-> 0]
    /\ postedCodes = {}
    /\ pairAlerts = {}
    /\ procTimers = <<>>
    /\ coolTimers = <<>>
    /\ cartPc = "idle"
    /\ cartNew = NoSession
    /\ showQRCode = FALSE
    /\ qrCodeData = NoSession
    /\ pairEvent = "none"
    /\ lastCode = NoCode

\* the committed render shows the current state
PairRendered ==
    /\ rScanning = isScanning
    /\ rProcessing = isProcessingScan
    /\ rLastScanned = lastScannedId

\* React commits a render of QRCodeScreen with the current state
RenderPair ==
    /\ lastCode' = NoCode
    /\ ~PairRendered
    /\ rScanning' = isScanning
    /\ rProcessing' = isProcessingScan
    /\ rLastScanned' = lastScannedId
    /\ pairEvent' = "other"
    /\ UNCHANGED <<isScanning, isProcessingScan, lastScannedId, alertShownRef,
                   pairInFlight, postedCodes, pairAlerts, procTimers, coolTimers,
                   cartPc, cartNew, showQRCode, qrCodeData>>
    /\ UNCHANGED <<camVars, ctxVars, shopVars>>

\* handleImAPhone with the camera permission granted
ImAPhone ==
    /\ lastCode' = NoCode
    /\ PairRendered
    /\ ~isScanning
    /\ isScanning' = TRUE
    /\ pairEvent' = "other"
    /\ UNCHANGED <<isProcessingScan, lastScannedId, rScanning, rProcessing,
                   rLastScanned, alertShownRef, pairInFlight, postedCodes, pairAlerts,
                   procTimers, coolTimers, cartPc, cartNew, showQRCode, qrCodeData>>
    /\ UNCHANGED <<camVars, ctxVars, shopVars>>

\* Cancel button or onRequestClose of the scanner modal
CancelScan ==
    /\ lastCode' = NoCode
    /\ PairRendered
    /\ isScanning
    /\ isScanning' = FALSE
    /\ pairEvent' = "other"
    /\ UNCHANGED <<isProcessingScan, lastScannedId, rScanning, rProcessing,
                   rLastScanned, alertShownRef, pairInFlight, postedCodes, pairAlerts,
                   procTimers, coolTimers, cartPc, cartNew, showQRCode, qrCodeData>>
    /\ UNCHANGED <<camVars, ctxVars, shopVars>>

\* handleBarCodeScanned without the two same-code guards
ScanAcceptedNoDedup(code) ==
    /\ code # NoCode
    /\ ~rProcessing

\* the guards of handleBarCodeScanned, evaluated in the closure of the committed
\* render (state values) and on the live ref
ScanAccepted(code) ==
    /\ code # NoCode
    /\ ~rProcessing
    /\ rLastScanned # code
    /\ alertShownRef # code

\* onBarcodeScanned delivers a code to the handler of the committed render.
\* inSync: the delivery happens after React committed the latest state.
ScanDelivered(code, inSync) ==
    /\ inSync => PairRendered
    /\ lastCode' = code
    /\ rScanning /\ ~rProcessing
    /\ IF ScanAccepted(code)
       THEN /\ pairInFlight[code] < MaxInFlight
            /\ isProcessingScan' = TRUE
            /\ lastScannedId' = code
            /\ alertShownRef' = code
            /\ isScanning' = FALSE
            /\ pairInFlight' = [pairInFlight EXCEPT ![code] = @ + 1]
            /\ postedCodes' = postedCodes \cup {code}
            /\ pairEvent' = "post"
       ELSE /\ pairEvent' = "dropped"
            /\ UNCHANGED <<isProcessingScan, lastScannedId, alertShownRef, isScanning,
                           pairInFlight, postedCodes>>
    /\ UNCHANGED <<rScanning, rProcessing, rLastScanned, pairAlerts, procTimers,
                   coolTimers, cartPc, cartNew, showQRCode, qrCodeData>>
    /\ UNCHANGED <<camVars, ctxVars, shopVars>>

\* POST /api/pair answers OK: the success alert is shown
PairOk(code) ==
    /\ lastCode' = NoCode
    /\ PairRendered
    /\ pairInFlight[code] > 0
    /\ pairInFlight' = [pairInFlight EXCEPT ![code] = @ - 1]
    /\ pairAlerts' = pairAlerts \cup {Alert("paired", code)}
    /\ pairEvent' = "other"
    /\ UNCHANGED <<isScanning, isProcessingScan, lastScannedId, rScanning,
                   rProcessing, rLastScanned, alertShownRef, postedCodes, procTimers,
                   coolTimers, cartPc, cartNew, showQRCode, qrCodeData>>
    /\ UNCHANGED <<camVars, ctxVars, shopVars>>

\* the catch block with a setSessionId(scannedSessionId) in it
PairFailBinds(code) ==
    /\ lastCode' = NoCode
    /\ PairRendered
    /\ pairInFlight[code] > 0
    /\ pairInFlight' = [pairInFlight EXCEPT ![code] = @ - 1]
    /\ alertShownRef' = NoCode
    /\ pairAlerts' = pairAlerts \cup {Alert("failed", code)}
    /\ sessionId' = code
    /\ pairEvent' = "other"
    /\ UNCHANGED <<isScanning, isProcessingScan, lastScannedId, rScanning,
                   rProcessing, rLastScanned, postedCodes, procTimers, coolTimers,
                   cartPc, cartNew, showQRCode, qrCodeData>>
    /\ UNCHANGED <<camVars, shopVars>>

\* POST /api/pair fails (HTTP error or network exception): catch block
PairFail(code) ==
    /\ lastCode' = NoCode
    /\ PairRendered
    /\ pairInFlight[code] > 0
    /\ pairInFlight' = [pairInFlight EXCEPT ![code] = @ - 1]
    /\ alertShownRef' = NoCode
    /\ pairAlerts' = pairAlerts \cup {Alert("failed", code)}
    /\ pairEvent' = "other"
    /\ UNCHANGED <<isScanning, isProcessingScan, lastScannedId, rScanning,
                   rProcessing, rLastScanned, postedCodes, procTimers, coolTimers,
                   cartPc, cartNew, showQRCode, qrCodeData>>
    /\ UNCHANGED <<camVars, ctxVars, shopVars>>

\* OK of the 'Successfully Paired!' alert
SuccessOkPress(code) ==
    /\ lastCode' = NoCode
    /\ PairRendered
    /\ Alert("paired", code) \in pairAlerts
    /\ Len(procTimers) < MaxPairTimers
    /\ pairAlerts' = pairAlerts \ {Alert("paired", code)}
    /\ sessionId' = code
    /\ procTimers' = Append(procTimers, code)
    /\ pairEvent' = "other"
    /\ UNCHANGED <<isScanning, isProcessingScan, lastScannedId, rScanning,
                   rProcessing, rLastScanned, alertShownRef, pairInFlight, postedCodes,
                   coolTimers, cartPc, cartNew, showQRCode, qrCodeData>>
    /\ UNCHANGED <<camVars, shopVars>>

\* OK of the 'Pairing Failed' alert
FailOkPress(code) ==
    /\ lastCode' = NoCode
    /\ PairRendered
    /\ Alert("failed", code) \in pairAlerts
    /\ pairAlerts' = pairAlerts \ {Alert("failed", code)}
    /\ isProcessingScan' = FALSE
    /\ lastScannedId' = NoCode
    /\ pairEvent' = "other"
    /\ UNCHANGED <<isScanning, rScanning, rProcessing, rLastScanned, alertShownRef,
                   pairInFlight, postedCodes, procTimers, coolTimers, cartPc, cartNew,
                   showQRCode, qrCodeData>>
    /\ UNCHANGED <<camVars, ctxVars, shopVars>>

\* the 1000 ms timer of a success alert fires and sets the 5000 ms timer
ProcTimerFire ==
    /\ lastCode' = NoCode
    /\ PairRendered
    /\ procTimers # <<>>
    /\ Len(coolTimers) < MaxPairTimers
    /\ procTimers' = Tail(procTimers)
    /\ coolTimers' = Append(coolTimers, Head(procTimers))
    /\ isProcessingScan' = FALSE
    /\ pairEvent' = "other"
    /\ UNCHANGED <<isScanning, lastScannedId, rScanning, rProcessing, rLastScanned,
                   alertShownRef, pairInFlight, postedCodes, pairAlerts, cartPc,
                   cartNew, showQRCode, qrCodeData>>
    /\ UNCHANGED <<camVars, ctxVars, shopVars>>

\* the 5000 ms timer fires and leaves the ref and the last scanned id alone
CoolTimerFireSlotKept ==
    /\ lastCode' = NoCode
    /\ PairRendered
    /\ coolTimers # <<>>
    /\ coolTimers' = Tail(coolTimers)
    /\ pairEvent' = "other"
    /\ UNCHANGED <<isScanning, isProcessingScan, lastScannedId, rScanning,
                   rProcessing, rLastScanned, alertShownRef, pairInFlight,
                   postedCodes, pairAlerts, procTimers, cartPc, cartNew,
                   showQRCode, qrCodeData>>
    /\ UNCHANGED <<camVars, ctxVars, shopVars>>

\* the 5000 ms timer fires
CoolTimerFire ==
    /\ lastCode' = NoCode
    /\ PairRendered
    /\ coolTimers # <<>>
    /\ coolTimers' = Tail(coolTimers)
    /\ alertShownRef' = NoCode
    /\ lastScannedId' = NoCode
    /\ pairEvent' = "other"
    /\ UNCHANGED <<isScanning, isProcessingScan, rScanning, rProcessing,
                   rLastScanned, pairInFlight, postedCodes, pairAlerts, procTimers,
                   cartPc, cartNew, showQRCode, qrCodeData>>
    /\ UNCHANGED <<camVars, ctxVars, shopVars>>

\* handleImACart up to the first fetch (the button is disabled while isLoading)
HandleImACart ==
    /\ lastCode' = NoCode
    /\ PairRendered
    /\ ~showQRCode
    /\ cartPc = "idle"
    /\ cartPc' = "create"
    /\ pairEvent' = "other"
    /\ UNCHANGED <<isScanning, isProcessingScan, lastScannedId, rScanning,
                   rProcessing, rLastScanned, alertShownRef, pairInFlight, postedCodes,
                   pairAlerts, procTimers, coolTimers, cartNew, showQRCode, qrCodeData>>
    /\ UNCHANGED <<camVars, ctxVars, shopVars>>

\* POST /api/sessions/ answers OK with session s: setSessionId, then the QR fetch
CreateOk(s) ==
    /\ lastCode' = NoCode
    /\ cartPc = "create"
    /\ cartPc' = "qr"
    /\ cartNew' = s
    /\ sessionId' = s
    /\ pairEvent' = "other"
    /\ UNCHANGED <<isScanning, isProcessingScan, lastScannedId, rScanning,
                   rProcessing, rLastScanned, alertShownRef, pairInFlight, postedCodes,
                   pairAlerts, procTimers, coolTimers, showQRCode, qrCodeData>>
    /\ UNCHANGED <<camVars, shopVars>>

\* POST /api/sessions/ fails: catch and finally
CreateFail ==
    /\ lastCode' = NoCode
    /\ cartPc = "create"
    /\ cartPc' = "idle"
    /\ pairAlerts' = pairAlerts \cup {Alert("error", NoCode)}
    /\ pairEvent' = "other"
    /\ UNCHANGED <<isScanning, isProcessingScan, lastScannedId, rScanning,
                   rProcessing, rLastScanned, alertShownRef, pairInFlight, postedCodes,
                   procTimers, coolTimers, cartNew, showQRCode, qrCodeData>>
    /\ UNCHANGED <<camVars, ctxVars, shopVars>>

\* GET .../qrcode answers OK: the QR modal is shown
QrOk ==
    /\ lastCode' = NoCode
    /\ cartPc = "qr"
    /\ cartPc' = "idle"
    /\ qrCodeData' = cartNew
    /\ showQRCode' = TRUE
    /\ pairEvent' = "other"
    /\ UNCHANGED <<isScanning, isProcessingScan, lastScannedId, rScanning,
                   rProcessing, rLastScanned, alertShownRef, pairInFlight, postedCodes,
                   pairAlerts, procTimers, coolTimers, cartNew>>
    /\ UNCHANGED <<camVars, ctxVars, shopVars>>

\* GET .../qrcode fails: catch and finally
QrFail ==
    /\ lastCode' = NoCode
    /\ cartPc = "qr"
    /\ cartPc' = "idle"
    /\ pairAlerts' = pairAlerts \cup {Alert("error", NoCode)}
    /\ pairEvent' = "other"
    /\ UNCHANGED <<isScanning, isProcessingScan, lastScannedId, rScanning,
                   rProcessing, rLastScanned, alertShownRef, pairInFlight, postedCodes,
                   procTimers, coolTimers, cartNew, showQRCode, qrCodeData>>
    /\ UNCHANGED <<camVars, ctxVars, shopVars>>

\* OK of an error alert of handleImACart, or Close of the QR modal
DismissCart ==
    /\ lastCode' = NoCode
    /\ showQRCode \/ Alert("error", NoCode) \in pairAlerts
    /\ showQRCode' = FALSE
    /\ pairAlerts' = pairAlerts \ {Alert("error", NoCode)}
    /\ pairEvent' = "other"
    /\ UNCHANGED <<isScanning, isProcessingScan, lastScannedId, rScanning,
                   rProcessing, rLastScanned, alertShownRef, pairInFlight, postedCodes,
                   procTimers, coolTimers, cartPc, cartNew, qrCodeData>>
    /\ UNCHANGED <<camVars, ctxVars, shopVars>>

\* scanning on the pairing screen; inSync: every scan delivery follows the
\* commit of the state the handler before it set
ScanNext(inSync) ==
    \/ RenderPair
    \/ ImAPhone
    \/ CancelScan
    \/ \E code \in CodeOrNone : ScanDelivered(code, inSync)
    \/ \E code \in Codes : PairOk(code)
    \/ \E code \in Codes : PairFail(code)
    \/ \E code \in Codes : SuccessOkPress(code)
    \/ \E code \in Codes : FailOkPress(code)
    \/ ProcTimerFire
    \/ CoolTimerFire

\* "I'm a cart" on the pairing screen
CartFlowNext ==
    \/ HandleImACart
    \/ \E s \in Sessions : CreateOk(s)
    \/ CreateFail
    \/ QrOk
    \/ QrFail
    \/ DismissCart

(***************************************************************************)
(* Cart context and products screen                                        *)
(*                                                                         *)
(* Prices are counted in cents.  products.tsx takes setProducts from the   *)
(* cart context: it is modelled as the setter of the context's products.   *)
(***************************************************************************)
NoItem == 0
ItemIds == 1..NumItems
Names == 1..NumNames
Prices == {PriceUnit * i : i \in 1..MaxPrice}
Quantities == 0..MaxQty

\* a record of the items array of the Firestore cart document
RawItems == [item_id : ItemIds, product_name : Names, price : Prices,
             quantity : Quantities]

\* a record of the items array GET /api/carts/{id}/items answers with
RestItems == [item_id : ItemIds, product_name : Names, price : Prices]

SeqsUpTo(S, n) == UNION {[1..k -> S] : k \in 0..n}

DistinctIds(items) ==
    \A i, j \in DOMAIN items : i # j => items[i].item_id # items[j].item_id

ItemLists == {items \in SeqsUpTo(RawItems, MaxItems) : DistinctIds(items)}

RestLists == {items \in SeqsUpTo(RestItems, MaxItems) : DistinctIds(items)}

\* what onSnapshot hands to listenToCart: nothing yet, a document, or a missing
\* document / listener error
Snapshot(kind, items) == [kind |-> kind, items |-> items]

NoSnapshot == Snapshot("none", <<>>)

MissingDoc == Snapshot("missing", <<>>)

Snapshots == {MissingDoc} \cup {Snapshot("doc", items) : items \in ItemLists}

\* listenToCart: the items of the Cart object built from the document
CartItems(items) ==
    [i \in DOMAIN items |->
        [id |-> items[i].item_id, name |-> items[i].product_name,
         price |-> items[i].price]]

\* item.quantity || 1
QuantityOrOne(item) ==
    IF "quantity" \in DOMAIN item /\ item.quantity # 0 THEN item.quantity ELSE 1

\* the callback of the products screen: productsArray
ProductsArray(cartItems) ==
    [i \in DOMAIN cartItems |->
        [id |-> cartItems[i].id, name |-> cartItems[i].name,
         price |-> cartItems[i].price, quantity |-> QuantityOrOne(cartItems[i])]]

\* previousQuantitiesRef.current.get(id) || 0
PrevQuantity(id) == previousQuantities[id]

QuantityChanged(e) == e.from > 0 /\ e.to # e.from

\* the playBeep calls of the forEach over productsArray, in order
BeepsOf(arr) ==
    LET seen == [i \in DOMAIN arr |->
                    [id |-> arr[i].id, from |-> PrevQuantity(arr[i].id),
                     to |-> arr[i].quantity]]
        changed == SelectSeq(seen, QuantityChanged)
    IN [i \in DOMAIN changed |->
           [id |-> changed[i].id,
            dir |-> IF changed[i].to > changed[i].from THEN "increase"
                    ELSE "decrease"]]

\* currentQuantities after the forEach: the last entry set for an id wins
CurrentQuantities(arr) ==
    [id \in ItemIds |->
        LET at == {i \in DOMAIN arr : arr[i].id = id} IN
        IF at = {} THEN 0
        ELSE arr[CHOOSE i \in at : \A j \in at : j <= i].quantity]

NoQuantities == [id \in ItemIds |-> 0]

\* one product per record, nothing grouped or counted
GroupItemsUngrouped(items, acc) ==
    acc \o [i \in DOMAIN items |->
               [id |-> items[i].item_id, name |-> items[i].product_name,
                price |-> items[i].price, quantity |-> 1]]

\* fetchCartItems: one product per product_name, quantity = number of records
RECURSIVE GroupItems(_, _)
GroupItems(items, acc) ==
    IF items = <<>> THEN acc
    ELSE LET item == Head(items)
             hit == {i \in DOMAIN acc : acc[i].name = item.product_name}
         IN GroupItems(Tail(items),
                IF hit # {}
                THEN [i \in DOMAIN acc |->
                         IF i \in hit THEN [acc[i] EXCEPT !.quantity = @ + 1]
                         ELSE acc[i]]
                ELSE Append(acc, [id |-> item.item_id, name |-> item.product_name,
                                  price |-> item.price, quantity |-> 1]))

\* removeProduct
RemoveProduct(prev, id) ==
    LET Keep(p) == p.id # id IN SelectSeq(prev, Keep)

\* updateProductQuantity
UpdateProductQuantity(prev, id, quantity) ==
    IF quantity <= 0 THEN RemoveProduct(prev, id)
    ELSE [i \in DOMAIN prev |->
             IF prev[i].id = id THEN [prev[i] EXCEPT !.quantity = quantity]
             ELSE prev[i]]

\* getSubtotal, in cents
RECURSIVE SubtotalOf(_)
SubtotalOf(list) ==
    IF list = <<>> THEN 0
    ELSE Head(list).price * Head(list).quantity + SubtotalOf(Tail(list))

CartInit ==
    /\ products = <<>>
    /\ fetching = {}
    /\ effSession = NoSession
    /\ previousQuantities = NoQuantities
    /\ removeAlert = NoItem
    /\ lastDelivered = NoSnapshot
    /\ beeps = <<>>
    /\ cartEvent = "none"
    /\ cartSub = [s \in Sessions |-> "none"]
    /\ fetched = <<>>
    /\ isLoading = FALSE

\* the cleanup of a listener effect keeps the listener of session s
UnsubscribeNothing(subs, s) == subs

\* the cleanup of a listener effect calls the unsubscribe function that
\* listenToCart returned for session s (none: the effect had returned early)
Unsubscribe(subs, s) ==
    IF s \in Sessions THEN [subs EXCEPT ![s] = "released"] ELSE subs

\* the body of a listener effect calls listenToCart for session s (none: it
\* returns before)
Subscribe(subs, s) ==
    IF s \in Sessions THEN [subs EXCEPT ![s] = "active"] ELSE subs

\* React runs the effects of the render with the new sessionId: the cleanup and
\* body of the listener effects of the products screen and of checkout.tsx,
\* then fetchCartItems of the CartProvider up to its await
SessionEffects ==
    /\ effSession # sessionId
    /\ effSession' = sessionId
    /\ lastDelivered' = NoSnapshot
    /\ IF sessionId = NoSession
       THEN /\ products' = <<>>
            /\ previousQuantities' = NoQuantities
            /\ UNCHANGED fetching
       ELSE /\ fetching' = fetching \cup {sessionId}
            /\ UNCHANGED <<products, previousQuantities>>
    /\ beeps' = <<>>
    /\ cartEvent' = "effect"
    /\ cartSub' = Subscribe(Unsubscribe(cartSub, effSession), sessionId)
    /\ isLoading' = IF sessionId = NoSession THEN isLoading ELSE TRUE
    /\ UNCHANGED fetched
    /\ firebaseTotalPrice' = IF sessionId = NoSession THEN 0 ELSE firebaseTotalPrice
    /\ UNCHANGED removeAlert
    /\ UNCHANGED <<checkoutScreen, isProcessingPayment, isProcessing, payPc,
                   payAmount, payEvent, checkoutPc, payAlert, sheetResult,
                   payRendered, latePc>>
    /\ UNCHANGED <<camVars, pairVars, ctxVars>>

\* onSnapshot delivers snap to the listener of the products screen
SnapshotDelivered(snap) ==
    /\ effSession # NoSession
    /\ lastDelivered' = snap
    /\ IF snap.kind = "doc"
       THEN LET arr == ProductsArray(CartItems(snap.items)) IN
            /\ beeps' = BeepsOf(arr)
            /\ previousQuantities' = CurrentQuantities(arr)
            /\ products' = arr
       ELSE /\ beeps' = <<>>
            /\ previousQuantities' = NoQuantities
            /\ products' = <<>>
    /\ cartEvent' = "delivery"
    /\ UNCHANGED <<fetching, effSession, removeAlert, cartSub, fetched,
                   isLoading>>
    /\ UNCHANGED <<camVars, pairVars, ctxVars, payVars>>

\* GET /api/carts/{s}/items answers OK with items
FetchOk(s, items) ==
    /\ s \in fetching
    /\ fetching' = fetching \ {s}
    /\ products' = GroupItems(items, <<>>)
    /\ fetched' = items
    /\ isLoading' = FALSE
    /\ beeps' = <<>>
    /\ cartEvent' = "fetch"
    /\ UNCHANGED <<effSession, previousQuantities, removeAlert, lastDelivered,
                   cartSub>>
    /\ UNCHANGED <<camVars, pairVars, ctxVars, payVars>>

\* the catch of fetchCartItems with a setProducts([]) in it
FetchFailClears(s) ==
    /\ s \in fetching
    /\ fetching' = fetching \ {s}
    /\ products' = <<>>
    /\ beeps' = <<>>
    /\ cartEvent' = "fetch-failed"
    /\ isLoading' = FALSE
    /\ UNCHANGED <<effSession, previousQuantities, removeAlert,
                   lastDelivered, cartSub, fetched>>
    /\ UNCHANGED <<camVars, pairVars, ctxVars, payVars>>

\* GET /api/carts/{s}/items fails: the products are kept
FetchFail(s) ==
    /\ s \in fetching
    /\ fetching' = fetching \ {s}
    /\ beeps' = <<>>
    /\ cartEvent' = "fetch-failed"
    /\ isLoading' = FALSE
    /\ UNCHANGED <<products, effSession, previousQuantities, removeAlert,
                   lastDelivered, cartSub, fetched>>
    /\ UNCHANGED <<camVars, pairVars, ctxVars, payVars>>

\* handleQuantityChange on the i-th product shown, change = +1 or -1
HandleQuantityChange(i, change) ==
    /\ removeAlert = NoItem
    /\ i \in DOMAIN products
    /\ LET product == products[i]
           newQuantity == product.quantity + change
       IN /\ newQuantity <= MaxQty
          /\ IF newQuantity <= 0
             THEN /\ removeAlert' = product.id
                  /\ UNCHANGED products
             ELSE /\ products' = UpdateProductQuantity(products, product.id,
                                                       newQuantity)
                  /\ UNCHANGED removeAlert
    /\ beeps' = <<>>
    /\ cartEvent' = "edit"
    /\ UNCHANGED <<fetching, effSession, previousQuantities, lastDelivered,
                   cartSub, fetched,
                   isLoading>>
    /\ UNCHANGED <<camVars, pairVars, ctxVars, payVars>>

\* Remove of the 'Remove Product' alert
RemoveConfirm ==
    /\ removeAlert # NoItem
    /\ removeAlert' = NoItem
    /\ products' = RemoveProduct(products, removeAlert)
    /\ beeps' = <<>>
    /\ cartEvent' = "edit"
    /\ UNCHANGED <<fetching, effSession, previousQuantities, lastDelivered,
                   cartSub, fetched,
                   isLoading>>
    /\ UNCHANGED <<camVars, pairVars, ctxVars, payVars>>

\* Cancel of the 'Remove Product' alert
RemoveCancel ==
    /\ removeAlert # NoItem
    /\ removeAlert' = NoItem
    /\ beeps' = <<>>
    /\ cartEvent' = "none"
    /\ UNCHANGED <<products, fetching, effSession, previousQuantities,
                   lastDelivered, cartSub, fetched,
                   isLoading>>
    /\ UNCHANGED <<camVars, pairVars, ctxVars, payVars>>

CartNext ==
    \/ SessionEffects
    \/ \E snap \in Snapshots : SnapshotDelivered(snap)
    \/ \E s \in Sessions, items \in RestLists : FetchOk(s, items)
    \/ \E s \in Sessions : FetchFail(s)
    \/ \E i \in 1..MaxItems, change \in {-1, 1} : HandleQuantityChange(i, change)
    \/ RemoveConfirm
    \/ RemoveCancel

(***************************************************************************)
(* Checkout screen                                                         *)
(*                                                                         *)
(* Two checkout screens are in the source: checkout.tsx ("inline": it      *)
(* calls the backend and the payment sheet itself) and the screen built on *)
(* services/stripe.ts ("service").  Amounts are counted in cents.  The     *)
(* code computes them in floating point: where the exact product ends in   *)
(* half a cent, Math.round may yield either neighbour.                     *)
(***************************************************************************)
CheckoutScreens == {"inline", "service"}

\* cart.totalPrice of the checkout screen's listener, in cents
Totals == {0} \cup {PriceUnit * i : i \in 1..MaxTotal}

\* TAX_RATE = 0.13: a total is 113 hundredths of its subtotal
TaxedPercent == 113

\* Math.round(subtotal * 100): the tax is left out
RoundedCentsNoTax(subtotal) == {subtotal}

\* Math.round(total * 100) for total = subtotal + subtotal * 0.13, subtotal in
\* cents: the integers nearest to subtotal * 113 / 100
RoundedCents(subtotal) ==
    LET x == subtotal * TaxedPercent
        q == x \div 100
        r == x % 100
    IN IF r < 50 THEN {q} ELSE IF r > 50 THEN {q + 1} ELSE {q, q + 1}

\* firebaseSubtotal of checkout.tsx
FirebaseSubtotal ==
    IF firebaseTotalPrice > 0 THEN firebaseTotalPrice ELSE SubtotalOf(products)

\* the subtotal the amount of the payment is computed from
PaymentBase(screen) ==
    IF screen = "inline" THEN FirebaseSubtotal ELSE SubtotalOf(products)

PayInit ==
    /\ checkoutScreen = "none"
    /\ firebaseTotalPrice = 0
    /\ isProcessingPayment = FALSE
    /\ isProcessing = FALSE
    /\ payPc = "idle"
    /\ payAmount = 0
    /\ payEvent = "none"
    /\ checkoutPc = "idle"
    /\ payAlert = "none"
    /\ sheetResult = "none"
    /\ payRendered = TRUE
    /\ latePc = "none"

\* router.push('/(tabs)/checkout') mounts the checkout screen of the build
CheckoutMount(screen) ==
    /\ checkoutScreen = "none"
    /\ checkoutScreen' = screen
    /\ payEvent' = "mount"
    /\ UNCHANGED <<firebaseTotalPrice, isProcessingPayment, isProcessing, payPc,
                   payAmount, payAlert, sheetResult>>
    /\ UNCHANGED <<camVars, pairVars, ctxVars, cartVars, checkoutPc,
                   payRendered, latePc>>

\* the listener of checkout.tsx receives a cart whose totalPrice is t (0: no
\* cart, or no total)
CheckoutTotalDelivered(t) ==
    /\ checkoutScreen = "inline"
    /\ sessionId # NoSession
    /\ effSession = sessionId
    /\ firebaseTotalPrice' = t
    /\ payEvent' = "total"
    /\ UNCHANGED <<checkoutScreen, isProcessingPayment, isProcessing, payPc,
                   payAmount, payAlert, sheetResult>>
    /\ UNCHANGED <<camVars, pairVars, ctxVars, cartVars, checkoutPc,
                   payRendered, latePc>>

\* handlePayment up to its first await
StartAttempt ==
    /\ checkoutScreen \in CheckoutScreens
    /\ payPc = "idle"
    /\ IF checkoutScreen = "inline"
       THEN /\ ~isProcessingPayment
            /\ isProcessingPayment' = TRUE
            /\ payAmount' \in RoundedCents(PaymentBase(checkoutScreen))
            /\ payPc' = "intent"
            /\ payEvent' = "intent"
            /\ payAlert' = "none"
            /\ UNCHANGED isProcessing
       ELSE /\ ~isProcessing
            /\ IF products = <<>>
               THEN /\ payEvent' = "rejected"
                    /\ payAlert' = "Empty Cart"
                    /\ UNCHANGED <<isProcessing, payAmount, payPc>>
               ELSE /\ isProcessing' = TRUE
                    /\ payAmount' \in RoundedCents(PaymentBase(checkoutScreen))
                    /\ payPc' = "intent"
                    /\ payEvent' = "intent"
                    /\ payAlert' = "none"
            /\ UNCHANGED isProcessingPayment
    /\ sheetResult' = "none"
    /\ UNCHANGED <<checkoutScreen, firebaseTotalPrice>>
    /\ UNCHANGED <<camVars, pairVars, ctxVars, cartVars, checkoutPc, latePc>>

\* a press of the payment button, the render with the flag it sets committed
\* before anything else happens
HandlePayment == StartAttempt /\ UNCHANGED payRendered

\* presentPaymentSheet resolves without an error ("paid") or with an error
\* whose code is Canceled or Failed
SheetResults == {"paid", "canceled", "failed"}

\* Alert.alert title of an attempt that ends without a payment at stage
\* "intent" (the request failed or threw), "init" (initError) or "present"
\* (presentError)
FailureAlert(screen, stage) ==
    IF screen = "inline"
    THEN CASE stage = "intent" -> "Payment Error"
           [] stage = "init" -> "Error"
           [] OTHER -> "Payment Canceled"
    ELSE "Payment Failed"

\* the flow ends without a payment and the processing flags stay as they are
PaymentAbandonedFlagKept ==
    /\ UNCHANGED <<isProcessingPayment, isProcessing>>
    /\ payPc' = "idle"
    /\ payEvent' = "failed"

\* the flow ends without a payment: catch / error return, processing flag reset
PaymentAbandoned ==
    /\ isProcessingPayment' = FALSE
    /\ isProcessing' = FALSE
    /\ payPc' = "idle"
    /\ payEvent' = "failed"

\* the handler goes on to the payment sheet whatever the request answered
IntentAnsweredSheetAnyway(ok) ==
    /\ payPc = "intent"
    /\ payPc' = "init"
    /\ payEvent' = IF ok THEN "init" ELSE "failed"
    /\ UNCHANGED <<isProcessingPayment, isProcessing, payAlert>>
    /\ UNCHANGED <<checkoutScreen, firebaseTotalPrice, payAmount, sheetResult>>
    /\ UNCHANGED <<camVars, pairVars, ctxVars, cartVars, checkoutPc,
                   payRendered, latePc>>

\* POST /api/create-payment-intent answers; ok: with a client secret
IntentAnswered(ok) ==
    /\ payPc = "intent"
    /\ IF ok
       THEN /\ payPc' = "init"
            /\ payEvent' = "init"
            /\ UNCHANGED <<isProcessingPayment, isProcessing, payAlert>>
       ELSE /\ PaymentAbandoned
            /\ payAlert' = FailureAlert(checkoutScreen, "intent")
    /\ UNCHANGED <<checkoutScreen, firebaseTotalPrice, payAmount, sheetResult>>
    /\ UNCHANGED <<camVars, pairVars, ctxVars, cartVars, checkoutPc,
                   payRendered, latePc>>

\* initPaymentSheet resolves; ok: without an error
SheetInitialized(ok) ==
    /\ payPc = "init"
    /\ IF ok
       THEN /\ payPc' = "present"
            /\ payEvent' = "present"
            /\ UNCHANGED <<isProcessingPayment, isProcessing, payAlert>>
       ELSE /\ PaymentAbandoned
            /\ payAlert' = FailureAlert(checkoutScreen, "init")
    /\ UNCHANGED <<checkoutScreen, firebaseTotalPrice, payAmount, sheetResult>>
    /\ UNCHANGED <<camVars, pairVars, ctxVars, cartVars, checkoutPc,
                   payRendered, latePc>>

\* presentPaymentSheet resolves with result; the handlers test presentError
\* only for being set
SheetPresented(result) ==
    /\ payPc = "present"
    /\ sheetResult' = result
    /\ IF result # "paid"
       THEN /\ PaymentAbandoned
            /\ payAlert' = FailureAlert(checkoutScreen, "present")
       ELSE IF checkoutScreen = "inline"
       THEN /\ payPc' = IF sessionId # NoSession THEN "finalize" ELSE "alert"
            /\ payEvent' = IF sessionId # NoSession THEN "finalize" ELSE "paid"
            /\ payAlert' = IF sessionId # NoSession THEN payAlert
                           ELSE "Payment Successful!"
            /\ UNCHANGED <<isProcessingPayment, isProcessing>>
       ELSE /\ payPc' = "alert"
            /\ payEvent' = "paid"
            /\ payAlert' = "Payment Successful!"
            /\ isProcessing' = FALSE
            /\ UNCHANGED isProcessingPayment
    /\ UNCHANGED <<checkoutScreen, firebaseTotalPrice, payAmount>>
    /\ UNCHANGED <<camVars, pairVars, ctxVars, cartVars, checkoutPc,
                   payRendered, latePc>>

\* PUT /api/sessions/{id}/checkout of processPaymentSuccess answers (any status)
\* or throws
FinalizeAnswered(thrown) ==
    /\ payPc = "finalize"
    /\ IF thrown
       THEN /\ PaymentAbandoned
            /\ UNCHANGED payAlert
       ELSE /\ payPc' = "alert"
            /\ payEvent' = "paid"
            /\ payAlert' = "Payment Successful!"
            /\ UNCHANGED <<isProcessingPayment, isProcessing>>
    /\ UNCHANGED <<checkoutScreen, firebaseTotalPrice, payAmount, sheetResult>>
    /\ UNCHANGED <<camVars, pairVars, ctxVars, cartVars, checkoutPc,
                   payRendered, latePc>>

\* OK / Done of the alert without the reset of the processing flag
SuccessAlertOkFlagKept ==
    /\ payPc = "alert"
    /\ payPc' = "idle"
    /\ products' = <<>>
    /\ sessionId' = IF checkoutScreen = "inline" THEN NoSession ELSE sessionId
    /\ payEvent' = "cleared"
    /\ UNCHANGED <<checkoutScreen, firebaseTotalPrice, isProcessingPayment,
                   isProcessing, payAmount, payAlert, sheetResult>>
    /\ UNCHANGED <<fetching, effSession, previousQuantities, removeAlert,
                   lastDelivered, beeps, cartEvent, cartSub, fetched,
                   isLoading>>
    /\ UNCHANGED <<camVars, pairVars, checkoutPc, payRendered, latePc>>

\* OK / Done of the 'Payment Successful!' alert
SuccessAlertOk ==
    /\ payPc = "alert"
    /\ payPc' = "idle"
    /\ products' = <<>>
    /\ IF checkoutScreen = "inline"
       THEN /\ sessionId' = NoSession
            /\ isProcessingPayment' = FALSE
       ELSE UNCHANGED <<sessionId, isProcessingPayment>>
    /\ payEvent' = "cleared"
    /\ UNCHANGED <<checkoutScreen, firebaseTotalPrice, isProcessing, payAmount,
                   payAlert, sheetResult>>
    /\ UNCHANGED <<fetching, effSession, previousQuantities, removeAlert,
                   lastDelivered, beeps, cartEvent, cartSub, fetched,
                   isLoading>>
    /\ UNCHANGED <<camVars, pairVars, checkoutPc, payRendered, latePc>>

PayNext ==
    \/ \E screen \in CheckoutScreens : CheckoutMount(screen)
    \/ \E t \in Totals : CheckoutTotalDelivered(t)
    \/ HandlePayment
    \/ \E ok \in BOOLEAN : IntentAnswered(ok)
    \/ \E ok \in BOOLEAN : SheetInitialized(ok)
    \/ \E result \in SheetResults : SheetPresented(result)
    \/ \E thrown \in BOOLEAN : FinalizeAnswered(thrown)
    \/ SuccessAlertOk

\* a press of the payment button; the render with the flag it sets is still to
\* be committed
HandlePaymentUncommitted ==
    /\ payRendered
    /\ StartAttempt
    /\ payRendered' = ~(isProcessingPayment' \/ isProcessing')

\* React commits the render with the processing flag: the button is disabled
\* and handlePayment is the closure that reads the flag as set
RenderPay ==
    /\ ~payRendered
    /\ payRendered' = TRUE
    /\ payEvent' = "render"
    /\ UNCHANGED <<checkoutScreen, firebaseTotalPrice, isProcessingPayment,
                   isProcessing, payPc, payAmount, checkoutPc, payAlert,
                   sheetResult, latePc>>
    /\ UNCHANGED <<camVars, pairVars, ctxVars, cartVars>>

\* a press delivered before that commit: the button of the committed render is
\* enabled and the closure of handlePayment reads the flag as false, so the
\* handler runs again up to its first await
HandlePaymentAgain ==
    /\ ~payRendered
    /\ latePc = "none"
    /\ checkoutScreen \in CheckoutScreens
    /\ IF checkoutScreen = "inline"
       THEN /\ isProcessingPayment' = TRUE
            /\ UNCHANGED isProcessing
       ELSE /\ products # <<>>
            /\ isProcessing' = TRUE
            /\ UNCHANGED isProcessingPayment
    /\ payAmount' \in RoundedCents(PaymentBase(checkoutScreen))
    /\ latePc' = "intent"
    /\ payEvent' = "intent"
    /\ payAlert' = "none"
    /\ sheetResult' = "none"
    /\ UNCHANGED <<checkoutScreen, firebaseTotalPrice, payPc, checkoutPc,
                   payRendered>>
    /\ UNCHANGED <<camVars, pairVars, ctxVars, cartVars>>

\* the attempt of that press ends without a payment: catch / error return
LateAbandoned ==
    /\ isProcessingPayment' = FALSE
    /\ isProcessing' = FALSE
    /\ latePc' = "none"
    /\ payEvent' = "failed"

\* POST /api/create-payment-intent of that attempt answers
IntentAnsweredLate(ok) ==
    /\ latePc = "intent"
    /\ IF ok
       THEN /\ latePc' = "init"
            /\ payEvent' = "init"
            /\ UNCHANGED <<isProcessingPayment, isProcessing, payAlert>>
       ELSE /\ LateAbandoned
            /\ payAlert' = FailureAlert(checkoutScreen, "intent")
    /\ UNCHANGED <<checkoutScreen, firebaseTotalPrice, payAmount, sheetResult>>
    /\ UNCHANGED <<camVars, pairVars, ctxVars, cartVars, checkoutPc,
                   payRendered, payPc>>

\* initPaymentSheet of that attempt resolves
SheetInitializedLate(ok) ==
    /\ latePc = "init"
    /\ IF ok
       THEN /\ latePc' = "present"
            /\ payEvent' = "present"
            /\ UNCHANGED <<isProcessingPayment, isProcessing, payAlert>>
       ELSE /\ LateAbandoned
            /\ payAlert' = FailureAlert(checkoutScreen, "init")
    /\ UNCHANGED <<checkoutScreen, firebaseTotalPrice, payAmount, sheetResult>>
    /\ UNCHANGED <<camVars, pairVars, ctxVars, cartVars, checkoutPc,
                   payRendered, payPc>>

\* presentPaymentSheet of that attempt resolves with result
SheetPresentedLate(result) ==
    /\ latePc = "present"
    /\ sheetResult' = result
    /\ IF result # "paid"
       THEN /\ LateAbandoned
            /\ payAlert' = FailureAlert(checkoutScreen, "present")
       ELSE IF checkoutScreen = "inline"
       THEN /\ latePc' = IF sessionId # NoSession THEN "finalize" ELSE "alert"
            /\ payEvent' = IF sessionId # NoSession THEN "finalize" ELSE "paid"
            /\ payAlert' = IF sessionId # NoSession THEN payAlert
                           ELSE "Payment Successful!"
            /\ UNCHANGED <<isProcessingPayment, isProcessing>>
       ELSE /\ latePc' = "alert"
            /\ payEvent' = "paid"
            /\ payAlert' = "Payment Successful!"
            /\ isProcessing' = FALSE
            /\ UNCHANGED isProcessingPayment
    /\ UNCHANGED <<checkoutScreen, firebaseTotalPrice, payAmount>>
    /\ UNCHANGED <<camVars, pairVars, ctxVars, cartVars, checkoutPc,
                   payRendered, payPc>>

\* the PUT of processPaymentSuccess of that attempt answers or throws
FinalizeAnsweredLate(thrown) ==
    /\ latePc = "finalize"
    /\ IF thrown
       THEN /\ LateAbandoned
            /\ UNCHANGED payAlert
       ELSE /\ latePc' = "alert"
            /\ payEvent' = "paid"
            /\ payAlert' = "Payment Successful!"
            /\ UNCHANGED <<isProcessingPayment, isProcessing>>
    /\ UNCHANGED <<checkoutScreen, firebaseTotalPrice, payAmount, sheetResult>>
    /\ UNCHANGED <<camVars, pairVars, ctxVars, cartVars, checkoutPc,
                   payRendered, payPc>>

\* OK / Done of the 'Payment Successful!' alert of that attempt
SuccessAlertOkLate ==
    /\ latePc = "alert"
    /\ latePc' = "none"
    /\ products' = <<>>
    /\ IF checkoutScreen = "inline"
       THEN /\ sessionId' = NoSession
            /\ isProcessingPayment' = FALSE
       ELSE UNCHANGED <<sessionId, isProcessingPayment>>
    /\ payEvent' = "cleared"
    /\ UNCHANGED <<checkoutScreen, firebaseTotalPrice, isProcessing, payAmount,
                   payAlert, sheetResult>>
    /\ UNCHANGED <<fetching, effSession, previousQuantities, removeAlert,
                   lastDelivered, beeps, cartEvent, cartSub, fetched,
                   isLoading>>
    /\ UNCHANGED <<camVars, pairVars, checkoutPc, payRendered, payPc>>

LateNext ==
    \/ \E ok \in BOOLEAN : IntentAnsweredLate(ok)
    \/ \E ok \in BOOLEAN : SheetInitializedLate(ok)
    \/ \E result \in SheetResults : SheetPresentedLate(result)
    \/ \E thrown \in BOOLEAN : FinalizeAnsweredLate(thrown)
    \/ SuccessAlertOkLate

\* handleCheckout of the products screen up to its first await: an empty cart
\* is rejected; with a session the PUT /api/sessions/{id}/checkout is issued and
\* awaited, without one the handler goes straight to router.push
HandleCheckout ==
    /\ checkoutPc = "idle"
    /\ products # <<>>
    /\ IF sessionId # NoSession
       THEN /\ checkoutPc' = "put"
            /\ payEvent' = "checkoutPut"
            /\ UNCHANGED checkoutScreen
       ELSE /\ checkoutPc' = "idle"
            /\ payEvent' = "mount"
            /\ checkoutScreen' = IF checkoutScreen = "none" THEN "inline"
                                 ELSE checkoutScreen
    /\ UNCHANGED <<firebaseTotalPrice, isProcessingPayment, isProcessing, payPc,
                   payAmount, payAlert, sheetResult>>
    /\ UNCHANGED <<camVars, pairVars, ctxVars, cartVars, payRendered, latePc>>

\* the PUT of handleCheckout answers or throws (the error is caught and
\* logged); the handler then navigates to the checkout screen
CheckoutPutAnswered ==
    /\ checkoutPc = "put"
    /\ checkoutPc' = "idle"
    /\ payEvent' = "mount"
    /\ checkoutScreen' = IF checkoutScreen = "none" THEN "inline"
                         ELSE checkoutScreen
    /\ UNCHANGED <<firebaseTotalPrice, isProcessingPayment, isProcessing, payPc,
                   payAmount, payAlert, sheetResult>>
    /\ UNCHANGED <<camVars, pairVars, ctxVars, cartVars, payRendered, latePc>>

CheckoutFlowNext ==
    \/ HandleCheckout
    \/ CheckoutPutAnswered

\* a snapshot of the cart document of session s reaches the client although
\* the screens listen to another session or to none.  The SDK calls a listener
\* only while it is active: a released one is not called.
LateSnapshot(s) ==
    /\ s # effSession
    /\ cartSub[s] # "none"
    /\ IF cartSub[s] = "active"
       THEN \E snap \in Snapshots :
            /\ lastDelivered' = snap
            /\ IF snap.kind = "doc"
               THEN LET arr == ProductsArray(CartItems(snap.items)) IN
                    /\ beeps' = BeepsOf(arr)
                    /\ previousQuantities' = CurrentQuantities(arr)
                    /\ products' = arr
               ELSE /\ beeps' = <<>>
                    /\ previousQuantities' = NoQuantities
                    /\ products' = <<>>
            /\ firebaseTotalPrice' \in IF checkoutScreen = "inline" THEN Totals
                                        ELSE {firebaseTotalPrice}
       ELSE /\ beeps' = <<>>
            /\ UNCHANGED <<lastDelivered, previousQuantities, products,
                           firebaseTotalPrice>>
    /\ cartEvent' = "late"
    /\ UNCHANGED <<fetching, effSession, removeAlert, cartSub, fetched,
                   isLoading>>
    /\ UNCHANGED <<checkoutScreen, isProcessingPayment, isProcessing, payPc,
                   payAmount, payEvent, checkoutPc, payAlert, sheetResult,
                   payRendered, latePc>>
    /\ UNCHANGED <<camVars, pairVars, ctxVars>>

\* the pairing screen after "I'm a cart" created session s and the QR modal
\* was closed
PairedInit(s) ==
    /\ isScanning = FALSE
    /\ isProcessingScan = FALSE
    /\ lastScannedId = NoCode
    /\ rScanning = FALSE
    /\ rProcessing = FALSE
    /\ rLastScanned = NoCode
    /\ alertShownRef = NoCode
    /\ pairInFlight = [c \in Codes |-> 0]
    /\ postedCodes = {}
    /\ pairAlerts = {}
    /\ procTimers = <<>>
    /\ coolTimers = <<>>
    /\ cartPc = "idle"
    /\ cartNew = s
    /\ showQRCode = FALSE
    /\ qrCodeData = s
    /\ pairEvent = "other"
    /\ lastCode = NoCode
    /\ sessionId = s

CtxInit ==
    /\ sessionId = NoSession

Init == CamInit /\ PairInit /\ CtxInit /\ CartInit /\ PayInit

Next ==
    CamNext \/ ScanNext(TRUE) \/ CartFlowNext \/ CartNext \/ PayNext
        \/ CheckoutFlowNext
        \/ \E s \in Sessions : LateSnapshot(s)

Spec == Init /\ [][Next]_vars

\* the camera screen alone
SpecCamera == Init /\ [][CamNext]_vars

\* the camera screen with the scheduling of the JavaScript event loop: a timer
\* that was set fires, and a tick timer eventually fires after the frame
\* interval has elapsed; nothing makes the camera or the network answer
SpecCameraFair ==
    /\ Init
    /\ [][CamNext]_vars
    /\ WF_vars(StartTimerFire)
    /\ \A c \in ChainIds : WF_vars(TickFire(c, FALSE))

\* the camera screen of a phone that is paired with one session: the session
\* id it renders with is that session's or none
SpecCameraPaired ==
    Init /\ [][\/ StartTimerFire
               \/ \E c \in ChainIds, early \in BOOLEAN : TickFire(c, early)
               \/ \E c \in ChainIds, hasData \in BOOLEAN : CaptureDone(c, hasData)
               \/ \E c \in ChainIds, teardown \in BOOLEAN : CaptureFail(c, teardown)
               \/ \E c \in ChainIds, outcome \in UploadOutcomes : UploadDone(c, outcome)
               \/ OnCameraReady
               \/ \E s \in {NoSession, 1} : CamSessionChange(s)
               \/ \E g \in BOOLEAN : PermissionChange(g)
               \/ BackPress
               \/ CamUnmount]_vars

\* the pairing screen, every scan delivered after React committed
SpecPair == Init /\ [][ScanNext(TRUE) \/ CartFlowNext]_vars

\* the pairing screen with the scheduling of the JavaScript event loop: a
\* pending render is committed and a timer that was set fires; nothing makes
\* the user press a button or the network answer
SpecPairFair ==
    /\ Init
    /\ [][ScanNext(TRUE)]_vars
    /\ WF_vars(RenderPair)
    /\ SF_vars(ProcTimerFire)
    /\ SF_vars(CoolTimerFire)

\* the scanner of the pairing screen, scan deliveries racing with React's commit
SpecScanRace == Init /\ [][ScanNext(FALSE)]_vars

\* a paired session: the cart context with the products screen
InitCart == CamInit /\ CartInit /\ PayInit /\ \E s \in Sessions : PairedInit(s)

SpecCart == InitCart /\ [][CartNext]_vars

\* the products screen of a paired phone while "I'm a cart" of the pairing
\* screen creates another session: the cart listener is released and set again
SpecResubscribe ==
    InitCart /\ [][SessionEffects
                     \/ (\E snap \in Snapshots : SnapshotDelivered(snap))
                     \/ CartFlowNext]_vars

\* the product lists the user's edits (+, -, Remove) make of the list arr
EditedCarts(arr) ==
    LET Edited(q) ==
            SelectSeq([i \in DOMAIN arr |-> [arr[i] EXCEPT !.quantity = q[i]]],
                      LAMBDA p : p.quantity > 0)
    IN {Edited(q) : q \in [DOMAIN arr -> 0..MaxQty]}

\* a paired session on the checkout screen: a document was delivered (records of
\* one product name, in the order of their ids), its fetch is over, and the user
\* edited the list
InitPay ==
    /\ CamInit
    /\ PayInit
    /\ \E s \in Sessions : PairedInit(s)
    /\ effSession = sessionId
    /\ fetching = {}
    /\ removeAlert = NoItem
    /\ beeps = <<>>
    /\ cartEvent = "edit"
    /\ cartSub = Subscribe([s \in Sessions |-> "none"], sessionId)
    /\ fetched = <<>>
    /\ isLoading = FALSE
    /\ \E items \in ItemLists :
          /\ items # <<>>
          /\ \A i \in DOMAIN items :
                /\ items[i].quantity = 1
                /\ items[i].product_name = 1
                /\ \A j \in DOMAIN items :
                      i < j => items[i].item_id < items[j].item_id
          /\ lastDelivered = Snapshot("doc", items)
          /\ previousQuantities = CurrentQuantities(ProductsArray(CartItems(items)))
          /\ products \in EditedCarts(ProductsArray(CartItems(items)))

SpecPay == InitPay /\ [][PayNext \/ SessionEffects]_vars

\* a paired session on the checkout screen whose document holds one item and
\* whose list is as delivered
InitLate ==
    /\ InitPay
    /\ Len(lastDelivered.items) = 1
    /\ products = ProductsArray(CartItems(lastDelivered.items))

\* the processing flag of the mounted checkout screen is set
ProcessingFlagSet == isProcessingPayment \/ isProcessing

\* the checkout screens where every awaited call settles (a fetch resolves or
\* rejects, the payment sheet resolves when it is closed) and the one button of
\* the modal success alert is pressed
SpecPayFair ==
    /\ InitLate
    /\ [][PayNext \/ SessionEffects]_vars
    /\ WF_vars(\E ok \in BOOLEAN : IntentAnswered(ok))
    /\ WF_vars(\E ok \in BOOLEAN : SheetInitialized(ok))
    /\ WF_vars(\E result \in SheetResults : SheetPresented(result))
    /\ WF_vars(\E thrown \in BOOLEAN : FinalizeAnswered(thrown))
    /\ WF_vars(SuccessAlertOk)

\* the checkout screens with presses of the payment button that race with
\* React's commit of the processing flag
SpecPayRace ==
    /\ InitLate
    /\ [][\/ \E screen \in CheckoutScreens : CheckoutMount(screen)
          \/ HandlePaymentUncommitted
          \/ RenderPay
          \/ HandlePaymentAgain
          \/ \E ok \in BOOLEAN : IntentAnswered(ok)
          \/ \E ok \in BOOLEAN : SheetInitialized(ok)
          \/ \E result \in SheetResults : SheetPresented(result)
          \/ \E thrown \in BOOLEAN : FinalizeAnswered(thrown)
          \/ SuccessAlertOk
          \/ LateNext
          \/ SessionEffects]_vars

\* the products screen's Checkout button together with the checkout screens
SpecCheckout ==
    InitPay /\ [][PayNext \/ SessionEffects \/ CheckoutFlowNext]_vars

\* a payment on checkout.tsx that goes through and releases the session
PaidNext ==
    \/ CheckoutMount("inline")
    \/ \E t \in Totals : CheckoutTotalDelivered(t)
    \/ HandlePayment
    \/ IntentAnswered(TRUE)
    \/ SheetInitialized(TRUE)
    \/ SheetPresented("paid")
    \/ FinalizeAnswered(FALSE)
    \/ SuccessAlertOk

\* "I'm a cart" creates a session and shows its QR code
NewSessionNext ==
    \/ HandleImACart
    \/ \E s \in Sessions : CreateOk(s)
    \/ QrOk
    \/ DismissCart

\* a paired phone whose session is released by a payment or replaced by
\* "I'm a cart", with snapshots of the sessions it listened to still arriving
SpecLate ==
    InitLate /\ [][PaidNext \/ NewSessionNext \/ SessionEffects
                     \/ \E s \in Sessions : LateSnapshot(s)]_vars

\* the answers of GET /api/carts/{id}/items for a cart that holds one record
\* per physical item, of NumKeys product names
ItemRecords == [item_id : ItemIds, product_name : 1..NumKeys, price : {PriceUnit}]

RecordLists == {items \in SeqsUpTo(ItemRecords, MaxItems) : DistinctIds(items)}

\* a paired session whose listener delivered a one-item document while the
\* fetchCartItems of the session still awaits its answer
InitFetching ==
    /\ CamInit
    /\ PayInit
    /\ \E s \in Sessions : PairedInit(s)
    /\ effSession = sessionId
    /\ fetching = {sessionId}
    /\ isLoading = TRUE
    /\ fetched = <<>>
    /\ removeAlert = NoItem
    /\ beeps = <<>>
    /\ cartEvent = "delivery"
    /\ cartSub = Subscribe([s \in Sessions |-> "none"], sessionId)
    /\ \E items \in ItemLists :
          /\ Len(items) = 1
          /\ items[1].quantity = 1
          /\ items[1].product_name = 1
          /\ lastDelivered = Snapshot("doc", items)
          /\ previousQuantities = CurrentQuantities(ProductsArray(CartItems(items)))
          /\ products = ProductsArray(CartItems(items))

\* fetchCartItems of the CartProvider answering or failing while the user
\* edits the list
SpecFetch ==
    InitFetching
       /\ [][\/ \E s \in Sessions, items \in RecordLists : FetchOk(s, items)
             \/ \E s \in Sessions : FetchFail(s)
             \/ \E i \in 1..MaxItems, change \in {-1, 1} :
                   HandleQuantityChange(i, change)
             \/ RemoveConfirm
             \/ RemoveCancel]_vars

(***************************************************************************)
(* Camera claims                                                           *)
(***************************************************************************)
OutstandingCaptures == {c \in ChainIds : chainPc[c] = "capture"}

\* C1: at most one device capture issued by the capture loop is outstanding
\* in every reachable state of the camera screen.
SingleFlightCapture == Cardinality(OutstandingCaptures) <= 1

\* C2: once stopStreaming has been called (and no new start was requested),
\* no step begins a device capture or schedules a tick.
StopIsFinal == stopped => camEvent \notin {"capture", "schedule"}

(***************************************************************************)
(* Pairing claims                                                          *)
(***************************************************************************)
\* the cooldown window of code: a pairing call for it succeeded and the
\* 5000 ms timer set for that success has not fired yet
InCooldown(code) ==
    \/ Alert("paired", code) \in pairAlerts
    \/ \E i \in DOMAIN procTimers : procTimers[i] = code
    \/ \E i \in DOMAIN coolTimers : coolTimers[i] = code

\* the step issues a POST /api/pair for code
PostIssued(code) == pairEvent' = "post" /\ lastCode' = code

\* C3: when the deliveries submitted so far are of one pairing code and a
\* pairing call for it succeeded, no further POST /api/pair is issued for
\* that code before its cooldown has elapsed.
ScanDedupAfterSuccess ==
    [][\A code \in Codes :
          InCooldown(code) /\ postedCodes \subseteq {code}
             => ~PostIssued(code)]_vars

\* C3 witness: the same code is delivered again inside its cooldown window,
\* with the scanner unlocked again, and is dropped.
ScanDedupWitness ==
    \E code \in Codes :
        /\ InCooldown(code)
        /\ postedCodes = {code}
        /\ ~isProcessingScan
        /\ pairEvent = "dropped"
        /\ lastCode = code

\* the statement of C3 for any interleaving with other codes
ScanDedupAnyCodes ==
    [][\A code \in Codes : InCooldown(code) => ~PostIssued(code)]_vars

RECURSIVE SumOver(_, _)
SumOver(f, S) ==
    IF S = {} THEN 0
    ELSE LET x == CHOOSE x \in S : TRUE IN f[x] + SumOver(f, S \ {x})

TotalPairInFlight == SumOver(pairInFlight, Codes)

\* C4: at most one pairing request is outstanding at any time; scans delivered
\* while one is outstanding are dropped.
OnePairingInFlight == TotalPairInFlight <= 1

\* C9: once sessionId holds an id, no step sets it to a different id; it only
\* changes by being set to null.
SessionIdStable ==
    [][sessionId # NoSession => sessionId' \in {sessionId, NoSession}]_vars

(***************************************************************************)
(* Cart claims                                                             *)
(***************************************************************************)
\* the number of playBeep calls of the last step that are about id
BeepCount(seq, id) == Cardinality({i \in DOMAIN seq : seq[i].id = id})

\* id is in both document snapshots, with different quantities
QuantityDiffers(prev, new, id) ==
    /\ prev.kind = "doc"
    /\ new.kind = "doc"
    /\ \E i \in DOMAIN prev.items, j \in DOMAIN new.items :
          /\ prev.items[i].item_id = id
          /\ new.items[j].item_id = id
          /\ prev.items[i].quantity # new.items[j].quantity

\* C5: a snapshot delivery emits exactly one increase/decrease event for every
\* item id whose quantity differs from its quantity in the delivery before,
\* and none for any other id.
OneEventPerChangedItem ==
    [][cartEvent' = "delivery" /\ cartVars' # cartVars
         => \A id \in ItemIds :
               BeepCount(beeps', id) =
                  IF QuantityDiffers(lastDelivered, lastDelivered', id)
                  THEN 1 ELSE 0]_vars

\* the product list a document snapshot stands for: same items, order and
\* quantities
Projection(items) ==
    [i \in DOMAIN items |->
        [id |-> items[i].item_id, name |-> items[i].product_name,
         price |-> items[i].price, quantity |-> items[i].quantity]]

\* C8: while a session is subscribed and a snapshot was delivered, products is
\* the projection of the snapshot delivered last.
LocalCartIsLatestSnapshot ==
    (effSession # NoSession /\ lastDelivered.kind # "none")
       => products = IF lastDelivered.kind = "doc"
                     THEN Projection(lastDelivered.items) ELSE <<>>

\* C10: every product has quantity >= 1, and an item a snapshot delivers with
\* quantity <= 0 is not in the product list after the delivery.
NoNonPositiveQuantities ==
    /\ \A i \in DOMAIN products : products[i].quantity >= 1
    /\ (cartEvent = "delivery" /\ lastDelivered.kind = "doc")
          => \A j \in DOMAIN lastDelivered.items :
                lastDelivered.items[j].quantity <= 0
                   => \A i \in DOMAIN products :
                         products[i].id # lastDelivered.items[j].item_id

(***************************************************************************)
(* Checkout claims                                                         *)
(***************************************************************************)
\* the step is a run of handlePayment: it issues the create-payment-intent
\* request or rejects the press
PaymentHandlerRuns ==
    /\ payPc = "idle"
    /\ payEvent' \in {"intent", "rejected"}
    /\ payEvent' # payEvent

\* C6: with an empty product list, a run of the payment handler issues no
\* payment-intent request and leaves the processing state, the cart and the
\* session id as they were.
EmptyCartRejected ==
    [][(products = <<>> /\ PaymentHandlerRuns)
         => /\ payEvent' = "rejected"
            /\ payPc' = "idle"
            /\ UNCHANGED <<isProcessingPayment, isProcessing, products,
                           sessionId>>]_vars

Abs(x) == IF x < 0 THEN -x ELSE x

\* amount is an integer nearest to subtotal * 1.13 counted in cents
NearestTaxedCents(amount, subtotal) ==
    2 * Abs(100 * amount - 113 * subtotal) <= 100

AttemptStages == {"intent", "init", "present"}

\* C11: no step of a payment attempt that has not been confirmed changes the
\* product list or the session id, and when the attempt ends by a failure or
\* a cancel the processing flags are reset, so that handlePayment can run again.
PaymentFailureChangesNothing ==
    [][/\ (payPc \in AttemptStages \/ payPc' \in AttemptStages)
            => UNCHANGED <<products, sessionId>>
       /\ (payPc \in AttemptStages /\ payPc' = "idle")
            => ~isProcessingPayment' /\ ~isProcessing']_vars

\* C11 witness: an attempt for a non-empty cart of a paired session has failed
\* and the screen is ready for the next attempt.
PaymentFailureWitness ==
    /\ payEvent = "failed"
    /\ payPc = "idle"
    /\ products # <<>>
    /\ sessionId # NoSession
    /\ payAmount > 0
    /\ ~isProcessingPayment
    /\ ~isProcessing

\* C12: once the gateway confirmed the payment and the finalize call is out,
\* the flow goes on to the success alert whatever the finalize call does.
FinalizeNeverReverts ==
    [][payPc = "finalize" => payPc' \in {"finalize", "alert"}]_vars

\* a step in which a PUT /api/sessions/{id}/checkout request is sent
FinalizeIssued ==
    \/ checkoutPc = "idle" /\ checkoutPc' = "put"
    \/ payPc # "finalize" /\ payPc' = "finalize"

\* C13: a session-finalize request is issued only by the step in which the
\* payment sheet reports the confirmation's success.
FinalizeFollowsConfirmation ==
    [][FinalizeIssued => payPc = "present"]_vars

\* the dedup slot of the scanner holds no code and no processing mark
SlotIdle ==
    /\ ~isProcessingScan
    /\ lastScannedId = NoCode
    /\ alertShownRef = NoCode

\* a step in which a pairing call for code fails
PairingFails(code) ==
    /\ Alert("failed", code) \notin pairAlerts
    /\ Alert("failed", code) \in pairAlerts'

\* C14: the step in which a pairing call fails leaves the dedup slot idle, with
\* no timer and no press of the user in between.
FailedClaimReleasesSlot ==
    [][(\E code \in Codes : PairingFails(code)) => SlotIdle']_vars

\* the 1000 ms or the 5000 ms timer of a success of code is pending
CooldownStarted(code) ==
    \/ \E i \in DOMAIN procTimers : procTimers[i] = code
    \/ \E i \in DOMAIN coolTimers : coolTimers[i] = code

\* a pairing call, its alert or its 1000 ms timer is still outstanding
ClaimOutstanding ==
    \/ \E code \in Codes : pairInFlight[code] > 0
    \/ pairAlerts # {}
    \/ procTimers # <<>>

\* the slot is not held for code: neither the last scanned id nor the ref
\* names it, and the processing flag is set only for a claim still outstanding
SlotReleased(code) ==
    /\ lastScannedId # code
    /\ alertShownRef # code
    /\ isProcessingScan => ClaimOutstanding

\* C15 as stated: after a pairing call for a code succeeded, the slot is
\* eventually released for that code.
SuccessDecaysToIdle ==
    \A code \in Codes :
        (Alert("paired", code) \in pairAlerts) ~> SlotReleased(code)

\* C15 amended: once the success alert was dismissed, which sets the timers,
\* the slot is eventually released for that code.
CooldownDecaysToIdle ==
    \A code \in Codes : CooldownStarted(code) ~> SlotReleased(code)

\* C15 witness: the 5000 ms timer of a code is pending while the slot still
\* names the code and the processing flag is already reset.
CooldownWitness ==
    \E code \in Codes :
        /\ \E i \in DOMAIN coolTimers : coolTimers[i] = code
        /\ lastScannedId = code
        /\ alertShownRef = code
        /\ ~isProcessingScan

\* the capture of chain c returns in this step and the loop goes on
CaptureReturns(c) ==
    /\ chainPc[c] = "capture"
    /\ chainPc'[c] \notin {"capture", "none"}

\* C16: the step in which a capture returns sets the timer of the next tick;
\* the loop never waits for the upload of the frame.
UploadNeverDelaysCapture ==
    [][\A c \in ChainIds : CaptureReturns(c) => chainPc'[c] = "timer"]_vars

\* the listener effect runs its cleanup in this step: the subscription of the
\* session it was set for is released
SubscriptionReleased == effSession # NoSession /\ effSession' # effSession

\* C17: the step that releases the cart subscription of a session leaves the
\* retained previous-quantities map empty.
UnsubscribeClearsRetained ==
    [][SubscriptionReleased => previousQuantities' = NoQuantities]_vars

\* the loop was started by startStreaming and has not been stopped since, the
\* session is bound, the permission granted and the camera ready
LoopStarted ==
    /\ isStreaming
    /\ isMountedRef
    /\ CameraRefValid
    /\ camSession # NoSession
    /\ permissionGranted
    /\ cameraReady
    /\ \E c \in ChainIds : chainPc[c] = "timer"

\* C18: once the loop has been started with a bound session, the permission
\* granted and the camera ready, a device capture is eventually attempted
\* unless the loop is stopped first.
CaptureLoopProgress ==
    LoopStarted ~> (OutstandingCaptures # {} \/ ~isStreaming)

FlagNeverLeftSet == isCapturingRef => OutstandingCaptures # {}

\* C20 witness: a capture returned with a frame, or returned or threw after
\* the unmount, and the flag is clear with no capture outstanding.
FlagClearedWitness ==
    /\ ~isCapturingRef
    /\ OutstandingCaptures = {}
    /\ \/ camEvent = "upload" /\ \E c \in ChainIds : chainPc[c] = "upload"
       \/ camEvent = "end" /\ ~isMountedRef

\* the upload of the frame of chain c ends in this step
UploadEnds(c) == chainPc[c] = "upload" /\ chainPc'[c] # "upload"

\* C21: when the upload of a frame fails while the screen is alive, the tick
\* goes on as after a successful upload: the failure is kept as the error
\* state and the next tick is scheduled.
UploadFailureKeepsLoop ==
    [][\A c \in ChainIds :
          (UploadEnds(c) /\ isMountedRef)
             => /\ chainPc'[c] = "timer"
                /\ frameIntervalRef' = c
                /\ chainClo'[c] = chainClo[c]]_vars

\* C21 witness: an upload failed, the error is shown and the tick of the chain
\* is scheduled again.
UploadFailureWitness ==
    /\ error \in {"send", "network"}
    /\ camEvent = "schedule"
    /\ isMountedRef
    /\ frameIntervalRef # NoTimer
    /\ chainPc[frameIntervalRef] = "timer"

\* the capture of chain c throws in this step
CaptureThrows(c) ==
    /\ chainPc[c] = "capture"
    /\ chainPc'[c] # "capture"
    /\ camEvent' \in {"teardown", "capture-error"}

\* C22: a capture that throws with a teardown message ends its chain without
\* an error shown and without a timer; any other failure on a live screen
\* shows the capture error and sets the timer of exactly one next tick.
CaptureFailureClassified ==
    [][\A c \in ChainIds :
          CaptureThrows(c)
             => /\ \A d \in ChainIds \ {c} : chainPc'[d] = chainPc[d]
                /\ camEvent' = "teardown"
                      => /\ chainPc'[c] = "none"
                         /\ UNCHANGED <<error, frameIntervalRef>>
                /\ (camEvent' = "capture-error" /\ isMountedRef)
                      => /\ chainPc'[c] = "timer"
                         /\ frameIntervalRef' = c
                         /\ error' = "capture"]_vars

\* C22 witness: a capture threw with a teardown message on a live screen while
\* an earlier error was shown; the chain ended and the error is the earlier one.
CaptureTeardownWitness ==
    /\ camEvent = "teardown"
    /\ isMountedRef
    /\ error \in {"send", "network"}
    /\ \A c \in ChainIds : chainPc[c] # "capture"

\* C23: an attempt whose create-payment-intent request fails (a non-OK answer
\* or an exception) ends at that step: the failure alert of the intent stage
\* is raised, the processing flags are reset, no second request is issued (the
\* amount requested stays, the handler is back at idle), and neither the
\* payment sheet nor the finalize call is reached
IntentFailureEndsAttempt ==
    [][(payPc = "intent" /\ payEvent' = "failed")
          => /\ payPc' = "idle"
             /\ payAlert' = FailureAlert(checkoutScreen, "intent")
             /\ payAmount' = payAmount
             /\ sheetResult' = "none"
             /\ ~isProcessingPayment'
             /\ ~isProcessing']_vars

\* an attempt of checkout.tsx has ended on a failed intent request
IntentFailureWitness ==
    /\ checkoutScreen = "inline"
    /\ payPc = "idle"
    /\ payEvent = "failed"
    /\ payAlert = "Payment Error"
    /\ sheetResult = "none"
    /\ payAmount > 0

\* C24: an attempt whose payment sheet ended with a cancel by the user is
\* reported as canceled, one whose sheet ended with a processing failure is
\* reported as failed, and the two are never reported alike
CancelAndFailureDistinct ==
    /\ (payPc = "idle" /\ sheetResult = "canceled") => payAlert = "Payment Canceled"
    /\ (payPc = "idle" /\ sheetResult = "failed")
           => payAlert \in {"Payment Failed", "Payment Error"}

DeliveredQuantity(snap, id) ==
    LET at == {i \in DOMAIN snap.items : snap.items[i].item_id = id}
    IN IF at = {} THEN 0 ELSE snap.items[CHOOSE i \in at : TRUE].quantity

\* the directions of the playBeep calls in seq that are about id
BeepDirs(seq, id) == {seq[i].dir : i \in {j \in DOMAIN seq : seq[j].id = id}}

\* C26: in a snapshot delivery, an item id that is in the delivery before and
\* in the new one with different quantities gets the event increase when the
\* new quantity is the larger one and decrease when it is the smaller one; an
\* id whose quantity is unchanged, or that was not in the delivery before,
\* gets no event
EventDirection ==
    [][(cartEvent' = "delivery" /\ cartVars' # cartVars)
          => \A id \in ItemIds :
                BeepDirs(beeps', id) =
                   IF QuantityDiffers(lastDelivered, lastDelivered', id)
                   THEN IF DeliveredQuantity(lastDelivered', id)
                              > DeliveredQuantity(lastDelivered, id)
                        THEN {"increase"} ELSE {"decrease"}
                   ELSE {}]_vars

\* the product names of the records
RecordKeys(items) == {items[i].product_name : i \in DOMAIN items}

\* the number of records of one product name
RecordCount(items, key) ==
    Cardinality({i \in DOMAIN items : items[i].product_name = key})

\* C27: the list fetchCartItems builds from per-item records has exactly one
\* entry per distinct product name, the quantity of an entry is the number of
\* records of its name, and the quantities sum to the number of records
GroupedByIdentity ==
    cartEvent = "fetch"
       => /\ {products[i].name : i \in DOMAIN products} = RecordKeys(fetched)
          /\ Len(products) = Cardinality(RecordKeys(fetched))
          /\ \A i \in DOMAIN products :
                products[i].quantity = RecordCount(fetched, products[i].name)
          /\ SumOver([i \in DOMAIN products |-> products[i].quantity],
                     DOMAIN products) = Len(fetched)

\* an answer with two records of one product name was grouped
GroupedWitness ==
    /\ cartEvent = "fetch"
    /\ Len(fetched) = 2
    /\ Len(products) = 1
    /\ products[1].quantity = 2

\* C28: a fetch of the cart that fails (non-OK answer or exception) leaves
\* the product list as it was and clears the loading flag
FailedFetchKeepsState ==
    [][(cartEvent' = "fetch-failed" /\ fetching' # fetching)
          => products' = products /\ ~isLoading']_vars

\* a fetch failed while the list held products
FailedFetchWitness ==
    /\ cartEvent = "fetch-failed"
    /\ products # <<>>
    /\ ~isLoading

\* the step sets the context's sessionId to an id it did not hold
SessionIdSet == sessionId' # sessionId /\ sessionId' # NoSession

\* the step closes the success alert of a pairing response for the new
\* sessionId
FromPairingResponse ==
    /\ Alert("paired", sessionId') \in pairAlerts
    /\ Alert("paired", sessionId') \notin pairAlerts'

\* the step is the answer of POST /api/sessions/ to "I'm a cart", with the new
\* sessionId
FromSessionCreation == cartPc = "create" /\ cartNew' = sessionId'

\* C29: the step in which a pairing call fails raises the 'Pairing Failed'
\* alert and leaves sessionId unchanged, and sessionId is only ever set to the
\* session id of a successful pairing response
FailedPairingBindsNothing ==
    [][/\ (\E code \in Codes : PairingFails(code)) => sessionId' = sessionId
       /\ SessionIdSet => FromPairingResponse]_vars

\* C29 as the code has it: the step in which a pairing call fails raises the
\* 'Pairing Failed' alert and leaves sessionId unchanged; sessionId is set to
\* an id only by the OK of the success alert of a pairing response for that
\* id, or by the answer to the session creation of "I'm a cart"
FailedPairingKeepsSession ==
    [][/\ (\E code \in Codes : PairingFails(code)) => sessionId' = sessionId
       /\ SessionIdSet => (FromPairingResponse \/ FromSessionCreation)]_vars

\* a pairing call failed on a device that holds the session of another code
FailedPairingWitness ==
    \E code \in Codes :
       /\ Alert("failed", code) \in pairAlerts
       /\ sessionId # NoSession
       /\ sessionId # code

\* the handlePayment calls that have not returned (a success alert that is
\* open counts: its attempt holds the flag)
AttemptsInProgress ==
    (IF payPc # "idle" THEN 1 ELSE 0) + (IF latePc # "none" THEN 1 ELSE 0)

\* the create-payment-intent requests that await their answer
IntentRequests ==
    (IF payPc = "intent" THEN 1 ELSE 0) + (IF latePc = "intent" THEN 1 ELSE 0)

\* C30: whatever the presses of the payment button, two of them before the
\* screen is rendered again included, at most one payment attempt is in
\* progress and at most one create-payment-intent request is outstanding
OneAttemptAtATime == AttemptsInProgress <= 1 /\ IntentRequests <= 1

\* the tick chains of the camera screen that are alive: a tick timer of the
\* chain is pending, or its tick is running (awaiting the capture or the upload)
LiveChains == {c \in ChainIds : chainPc[c] # "none"}

\* C31: at any instant at most one tick chain of the camera screen is alive;
\* a restart of streaming by a re-run of the effect or by a delayed start
\* never leaves an older chain alive next to the new one
OneCaptureLoop == Cardinality(LiveChains) <= 1

\* a paired phone with a fetchCartItems in flight whose session is replaced
\* by "I'm a cart" before the answer arrives
SpecStaleFetch ==
    InitFetching
       /\ [][\/ NewSessionNext
             \/ SessionEffects
             \/ \E s \in Sessions, items \in RecordLists : FetchOk(s, items)
             \/ \E s \in Sessions : FetchFail(s)]_vars

\* the sessions whose GET /api/carts/{id}/items is answered by this step
AnsweredFetches == fetching \ fetching'

\* C32: the answer of a cart fetch made for a session that is no longer the
\* bound one (replaced or released since) does not overwrite the product list
StaleFetchIgnored ==
    [][(AnsweredFetches # {} /\ sessionId \notin AnsweredFetches)
          => products' = products]_vars

\* the step is one of handleImACart (the call starts, a fetch of it answers
\* or fails) that does not put the QR code on the screen
CartStepWithoutQr == cartPc' # cartPc /\ ~showQRCode'

\* C33: handleImACart is all-or-nothing: sessionId is bound only by the step
\* that completes the whole call and shows the QR code, so that a call that
\* fails at the session creation or at the QR fetch leaves sessionId as it
\* was before the call and shows no QR code
CreateSessionAllOrNothing ==
    [][CartStepWithoutQr => sessionId' = sessionId]_vars

\* an addProduct that appends the product whether or not its id is in the list
AddProductAppends(prev, product) == Append(prev, product)

\* addProduct
AddProduct(prev, product) ==
    IF \E i \in DOMAIN prev : prev[i].id = product.id
    THEN [i \in DOMAIN prev |->
             IF prev[i].id = product.id
             THEN [prev[i] EXCEPT !.quantity = prev[i].quantity + product.quantity]
             ELSE prev[i]]
    ELSE Append(prev, product)

\* clearCart
ClearCart == <<>>

\* the products a caller hands to addProduct; the edits look at id and
\* quantity only, so one name and one price stand for all
LocalProducts ==
    [id : ItemIds, name : {1}, price : {PriceUnit}, quantity : 1..MaxQty]

\* a local edit of the cart context sets products to list
LocalEdit(list, event) ==
    /\ products' = list
    /\ cartEvent' = event
    /\ UNCHANGED <<fetching, effSession, previousQuantities, removeAlert,
                   lastDelivered, beeps, cartSub, fetched, isLoading>>
    /\ UNCHANGED <<camVars, pairVars, ctxVars, payVars>>

\* a caller of the context calls addProduct(product); sums of quantities are
\* kept within 2 * MaxQty, the sum of two quantities a caller hands over
AddProductCall(product) ==
    /\ \A i \in DOMAIN products :
          products[i].id = product.id
             => products[i].quantity + product.quantity <= 2 * MaxQty
    /\ LocalEdit(AddProduct(products, product), "add")

\* a caller of the context calls updateProductQuantity(id, quantity)
UpdateProductQuantityCall(id, quantity) ==
    LocalEdit(UpdateProductQuantity(products, id, quantity), "update")

\* a caller of the context calls removeProduct(id)
RemoveProductCall(id) == LocalEdit(RemoveProduct(products, id), "remove")

\* a caller of the context calls clearCart()
ClearCartCall == LocalEdit(ClearCart, "clear")

\* the local edits of the cart context, from an empty cart
SpecLocalEdits ==
    Init /\ [][\/ \E product \in LocalProducts : AddProductCall(product)
               \/ \E id \in ItemIds, quantity \in Quantities :
                     UpdateProductQuantityCall(id, quantity)
               \/ \E id \in ItemIds : RemoveProductCall(id)
               \/ ClearCartCall]_vars

\* no two entries of list share an id
UniqueProductIds(list) ==
    \A i, j \in DOMAIN list : i # j => list[i].id # list[j].id

\* the step is an addProduct(product) on a list that holds product.id
AddOfPresentId(product) ==
    /\ cartEvent' = "add"
    /\ products' = AddProduct(products, product)
    /\ \E i \in DOMAIN products : products[i].id = product.id

\* C34: from an empty cart, after every addProduct, updateProductQuantity,
\* removeProduct and clearCart no two entries of the product list share an id,
\* and an addProduct of an id that is in the list adds the quantities and
\* leaves the length of the list unchanged
LocalEditsKeepIdsUnique ==
    [][/\ UniqueProductIds(products')
       /\ \A product \in LocalProducts :
             AddOfPresentId(product)
                => /\ Len(products') = Len(products)
                   /\ \A i \in DOMAIN products :
                         products'[i].quantity =
                            IF products[i].id = product.id
                            THEN products[i].quantity + product.quantity
                            ELSE products[i].quantity]_vars

\* an addProduct of an id that was in the list has acted on a list of two
\* products: only a sum of quantities exceeds MaxQty
AddedToPresentWitness ==
    /\ cartEvent = "add"
    /\ Len(products) = 2
    /\ \E i \in DOMAIN products : products[i].quantity > MaxQty

====
